---- MODULE Spec2Model ----
(***************************************************************************)
(* surfdist/utils.py: the one-to-one nearest-neighbour correspondence      *)
(* solver (find_node_match) and the cortex index-space helpers             *)
(* (surf_keep_cortex, triangles_keep_cortex, translate_src, recort).       *)
(*                                                                         *)
(* numpy arrays are functions over 0..n-1, so that indices, the sentinel   *)
(* -1 and the positions within cortex are the numbers the code computes.   *)
(***************************************************************************)
EXTENDS Integers, Sequences, FiniteSets, TLC

\* ------------------------------------------------------------------------
\* Bounds of the model
\* ------------------------------------------------------------------------
MaxS == 3            \* simple vertices, exhaustive family
MaxC == 3            \* complex vertices, exhaustive family
MaxBudget == 200     \* largest neighbour budget the k-d tree query is given

\* the step of the neighbour budget, utils.py line 103
NeighbourStep == 100

\* ------------------------------------------------------------------------
\* Helpers on 0-based arrays
\* ------------------------------------------------------------------------
Range(f) == {f[i] : i \in DOMAIN f}

Min(A) == CHOOSE a \in A : \A b \in A : a <= b

Max(A) == CHOOSE a \in A : \A b \in A : b <= a

\* a Python list literal as a 0-based array
ZeroBased(seq) == [i \in 0..(Len(seq) - 1) |-> seq[i + 1]]

\* all orderings of the complex vertices 0..c-1 by distance
Rankings(c) == {f \in [0..(c - 1) -> 0..(c - 1)] :
                  \A a, b \in 0..(c - 1) : a # b => f[a] # f[b]}

\* ------------------------------------------------------------------------
\* State of find_node_match
\* ------------------------------------------------------------------------
VARIABLES
  ranking,           \* ranking[i][c]: the c-th nearest complex vertex of simple vertex i
  nComplex,          \* complex_vertices.shape[0]
  voronoi_seed_idx,  \* the confirmed assignment, -1 where missing
  mapping_single,    \* the candidate of every simple vertex
  neighbours,        \* the k of the k-d tree query
  col,               \* the neighbour rank cursor
  missing,           \* the local variable `missing`
  pc                 \* position in find_node_match

matchVars == <<ranking, nComplex, voronoi_seed_idx, mapping_single,
               neighbours, col, missing, pc>>

\* ------------------------------------------------------------------------
\* State of the index-space helpers: the arguments and the last call
\* ------------------------------------------------------------------------
VARIABLES
  surf,              \* the full mesh: [vertices, triangles]
  cortex,            \* the cortex label, a 0-based array of vertex indices
  call               \* the last call: [op, arg, raised, result]

indexVars == <<surf, cortex, call>>

vars == <<matchVars, indexVars>>

nSimple == Cardinality(DOMAIN ranking)

Simple == DOMAIN ranking

\* Rankings of a crowded configuration, six simple vertices among six complex
\* vertices: the rankings of the simple points (1,3,0) (0,6,0) (4,4,0) (3,0,0),
\* of (6,12,0) and of (11,8,0) over the complex points (9,10,0) (12,8,0)
\* (9,4,0) (12,12,0) (12,9,0) (2,5,0). Every simple vertex takes any of them.
CrowdedRankings ==
  { ZeroBased(<<5, 2, 0, 1, 4, 3>>), ZeroBased(<<0, 3, 4, 1, 5, 2>>),
    ZeroBased(<<1, 4, 0, 3, 2, 5>>) }

CrowdedSize == Cardinality(DOMAIN (CHOOSE r \in CrowdedRankings : TRUE))

\* scipy.spatial.KDTree(complex_vertices).query(simple_vertices, k)[1][i, c]:
\* the c-th nearest complex vertex; the columns past the last real neighbour
\* hold the tree's size n ("missing neighbors are indicated with self.n").
mapping(i, c) == IF c < nComplex THEN ranking[i][c] ELSE nComplex

\* np.where(voronoi_seed_idx == -1)[0]
missing_idx(v) == {i \in DOMAIN v : v[i] = -1}

\* np.unique(mapping_single): the distinct candidate values
unique(ms) == Range(ms)

\* the last entry holding the value u, where the code takes the first
LastEntry(ms, u) == Max({i \in DOMAIN ms : ms[i] = u})

\* np.where(double_idx == u)[0][0]: the first entry holding the value u
FirstEntry(ms, u) == Min({i \in DOMAIN ms : ms[i] = u})

\* lines 124-131: start from all -1 and, for each unique value in ascending
\* order, give the value to the first entry that holds it
RECURSIVE FillSeeds(_, _, _)
FillSeeds(ms, U, v) ==
  IF U = {} THEN v
  ELSE LET u == Min(U)
       IN FillSeeds(ms, U \ {u}, [v EXCEPT ![FirstEntry(ms, u)] = u])

\* lines 118-119: every missing entry takes its col-th nearest neighbour
FillNext(ms, v, c) ==
  [i \in DOMAIN ms |-> IF i \in missing_idx(v) THEN mapping(i, c) ELSE ms[i]]

\* every candidate is confirmed, collisions included
SeedsKeepAll(ms) == ms

\* lines 121-131: the seeds after the collisions are resolved
Seeds(ms) == FillSeeds(ms, unique(ms), [i \in DOMAIN ms |-> -1])

\* ------------------------------------------------------------------------
\* Inputs and initial state (lines 94-99)
\* ------------------------------------------------------------------------
\* every ranking of up to MaxC complex vertices for up to MaxS simple vertices
ExhaustiveInputs ==
  \E s \in 1..MaxS, c \in 1..MaxC :
    /\ nComplex = c
    /\ ranking \in [0..(s - 1) -> Rankings(c)]

\* the crowded configuration
CrowdedInputs ==
  /\ nComplex = CrowdedSize
  /\ ranking \in [0..(CrowdedSize - 1) -> CrowdedRankings]

InitMatch ==
  /\ ExhaustiveInputs \/ CrowdedInputs
  /\ voronoi_seed_idx = [i \in DOMAIN ranking |-> -1]
  /\ missing = Cardinality(DOMAIN ranking)
  /\ mapping_single = [i \in DOMAIN ranking |-> 0]
  /\ neighbours = 0
  /\ col = 0
  /\ pc = "while_missing"

\* ------------------------------------------------------------------------
\* Steps of find_node_match
\* ------------------------------------------------------------------------
\* lines 101-106: another round of the outer loop, with a larger query
Query ==
  /\ pc = "while_missing"
  /\ missing # 0
  /\ neighbours + NeighbourStep <= MaxBudget
  /\ neighbours' = neighbours + NeighbourStep
  /\ pc' = "while_col"
  /\ UNCHANGED <<ranking, nComplex, voronoi_seed_idx, mapping_single, col, missing>>
  /\ UNCHANGED indexVars

\* line 105: the loop has no exit while a vertex is missing; a query of more
\* than MaxBudget neighbours outgrows the machine and the run ends without
\* a result
Exhaust ==
  /\ pc = "while_missing"
  /\ missing # 0
  /\ neighbours + NeighbourStep > MaxBudget
  /\ pc' = "exhausted"
  /\ UNCHANGED <<ranking, nComplex, voronoi_seed_idx, mapping_single,
                 neighbours, col, missing>>
  /\ UNCHANGED indexVars

\* lines 110-133: one pass of the inner loop with a missing vertex
Pass ==
  /\ pc = "while_col"
  /\ col < neighbours
  /\ missing_idx(voronoi_seed_idx) # {}
  /\ missing' = Cardinality(missing_idx(voronoi_seed_idx))
  /\ mapping_single' = FillNext(mapping_single, voronoi_seed_idx, col)
  /\ voronoi_seed_idx' = Seeds(mapping_single')
  /\ col' = col + 1
  /\ UNCHANGED <<ranking, nComplex, neighbours, pc>>
  /\ UNCHANGED indexVars

\* lines 112-115: nothing is missing, leave the inner loop
Break ==
  /\ pc = "while_col"
  /\ col < neighbours
  /\ missing_idx(voronoi_seed_idx) = {}
  /\ missing' = 0
  /\ pc' = "while_missing"
  /\ UNCHANGED <<ranking, nComplex, voronoi_seed_idx, mapping_single, neighbours, col>>
  /\ UNCHANGED indexVars

\* line 110: the columns of this query are used up
ColumnsUsedUp ==
  /\ pc = "while_col"
  /\ col >= neighbours
  /\ pc' = "while_missing"
  /\ UNCHANGED <<ranking, nComplex, voronoi_seed_idx, mapping_single,
                 neighbours, col, missing>>
  /\ UNCHANGED indexVars

\* lines 101, 135: missing is 0, return voronoi_seed_idx
Return ==
  /\ pc = "while_missing"
  /\ missing = 0
  /\ pc' = "return"
  /\ UNCHANGED <<ranking, nComplex, voronoi_seed_idx, mapping_single,
                 neighbours, col, missing>>
  /\ UNCHANGED indexVars

NextMatch == Query \/ Exhaust \/ Pass \/ Break \/ ColumnsUsedUp \/ Return

\* ------------------------------------------------------------------------
\* The index-space helpers
\* ------------------------------------------------------------------------
MaxN == 4            \* vertices of the full mesh
MaxT == 2            \* triangles of the full mesh
MaxSrc == 2          \* length of a src list with repeated or foreign indices

\* the values of a scalar field
FieldValues == {0, 7, 9}

NoCall == [op |-> "none", arg |-> <<>>, raised |-> "", result |-> <<>>]

\* 0-based arrays over A of the lengths in L
Arrays(A, L) == UNION {[0..(k - 1) -> A] : k \in L}

DuplicateFree(f) == \A a, b \in DOMAIN f : a # b => f[a] # f[b]

\* the cortex labels of a mesh of n vertices: unique valid indices, any order
CortexLabels(n) == {f \in Arrays(0..(n - 1), 0..n) : DuplicateFree(f)}

\* the coordinates of n distinct points
Points(n) == [i \in 0..(n - 1) |-> <<i, i * i, 1>>]

\* faces over n vertices, both orientations
Faces(n) == {t \in (0..(n - 1)) \X (0..(n - 1)) \X (0..(n - 1)) :
               t[1] < t[2] /\ t[1] < t[3] /\ t[2] # t[3]}

RECURSIVE FaceLists(_, _)
FaceLists(n, len) ==
  IF len = 0 THEN {<<>>}
  ELSE FaceLists(n, len - 1) \cup
       {Append(l, t) : l \in {x \in FaceLists(n, len - 1) : Len(x) = len - 1},
                       t \in Faces(n)}

\* the meshes of up to MaxN vertices and up to maxT faces
IsMesh(s, maxT) ==
  \E n \in 1..MaxN :
    \E tl \in FaceLists(n, maxT) : s = [vertices |-> Points(n), triangles |-> tl]

\* np.in1d(x, a), one element
in1d(x, a) == x \in Range(a)

\* line 38: all three nodes of the face are in cortex
triangle_is_in_cortex(t, ctx) == \A k \in 1..3 : in1d(t[k], ctx)

\* line 43: {old_index: new_index for new_index, old_index in enumerate(cortex)};
\* a later entry of the same key replaces the earlier one
index_mapping(ctx, old_index) == Max({p \in DOMAIN ctx : ctx[p] = old_index})

\* lines 37-48
triangles_keep_cortex(triangles, ctx) ==
  LET cortex_triangles_old == SelectSeq(triangles, LAMBDA t : triangle_is_in_cortex(t, ctx))
  IN IF Len(cortex_triangles_old) = 0
       \* np.vectorize without otypes refuses an input of size 0
       THEN [raised |-> "ValueError", result |-> <<>>]
       ELSE [raised |-> "",
             result |-> [n \in 1..Len(cortex_triangles_old) |->
                           [k \in 1..3 |-> index_mapping(ctx, cortex_triangles_old[n][k])]]]

\* lines 21-29
surf_keep_cortex(s, ctx) ==
  LET cortex_vertices == [p \in DOMAIN ctx |-> s.vertices[ctx[p]]]
      cortex_triangles == triangles_keep_cortex(s.triangles, ctx)
  IN IF cortex_triangles.raised # ""
       THEN [raised |-> cortex_triangles.raised, result |-> <<>>]
       ELSE [raised |-> "",
             result |-> <<cortex_vertices, cortex_triangles.result>>]

\* line 72: np.where(np.in1d(cortex, src))[0], the positions in ascending order
RECURSIVE where_in1d(_, _, _)
where_in1d(ctx, src, p) ==
  IF p \notin DOMAIN ctx THEN <<>>
  ELSE (IF in1d(ctx[p], src) THEN <<p>> ELSE <<>>) \o where_in1d(ctx, src, p + 1)

\* the arguments of in1d exchanged: positions within src
translate_src_swapped(src, ctx) == ZeroBased(where_in1d(src, ctx, 0))

translate_src(src, ctx) == ZeroBased(where_in1d(ctx, src, 0))

\* recort with the vertices outside the cortex marked -1 instead of 0
recort_sentinel(input_data, s, ctx) ==
  LET n == Cardinality(DOMAIN input_data)
      value(p) == IF n = 1 THEN input_data[0] ELSE input_data[p]
  IN IF n # Cardinality(DOMAIN ctx) /\ n # 1
       THEN [raised |-> "ValueError", result |-> <<>>]
       ELSE [raised |-> "",
             result |-> [i \in DOMAIN s.vertices |->
                           IF in1d(i, ctx) THEN value(index_mapping(ctx, i)) ELSE -1]]

\* lines 80-82: data = np.zeros(len(surf[0])); data[cortex] = input_data.
\* The assignment takes the values in order when the lengths agree, repeats a
\* single value (numpy broadcasting) and raises for any other length.
recort(input_data, s, ctx) ==
  LET zeros == [i \in DOMAIN s.vertices |-> 0]
      n == Cardinality(DOMAIN input_data)
      value(p) == IF n = 1 THEN input_data[0] ELSE input_data[p]
  IN IF n # Cardinality(DOMAIN ctx) /\ n # 1
       THEN [raised |-> "ValueError", result |-> <<>>]
       ELSE [raised |-> "",
             result |-> [i \in DOMAIN zeros |->
                           IF in1d(i, ctx) THEN value(index_mapping(ctx, i)) ELSE zeros[i]]]

IdleMatch ==
  /\ ranking = <<>> /\ nComplex = 0
  /\ voronoi_seed_idx = <<>> /\ mapping_single = <<>>
  /\ neighbours = 0 /\ col = 0 /\ missing = 0
  /\ pc = "idle"

IdleIndex ==
  /\ surf = [vertices |-> <<>>, triangles |-> <<>>]
  /\ cortex = <<>>
  /\ call = NoCall

InitMesh ==
  /\ IsMesh(surf, MaxT)
  /\ cortex \in CortexLabels(Cardinality(DOMAIN surf.vertices))
  /\ call = NoCall

InitIndex ==
  /\ IsMesh(surf, 0)
  /\ cortex \in CortexLabels(Cardinality(DOMAIN surf.vertices))
  /\ call = NoCall

SurfKeepCortex ==
  /\ call = NoCall
  /\ LET r == surf_keep_cortex(surf, cortex)
     IN call' = [op |-> "surf_keep_cortex", arg |-> <<>>,
                 raised |-> r.raised, result |-> r.result]
  /\ UNCHANGED <<surf, cortex>>
  /\ UNCHANGED matchVars

\* the src lists: the cortex labels, and short lists that may repeat an index
\* or name one outside the mesh
SrcLists(n) == CortexLabels(n) \cup Arrays(0..n, 0..MaxSrc)

TranslateSrc ==
  /\ call = NoCall
  /\ \E src \in SrcLists(Cardinality(DOMAIN surf.vertices)) :
       call' = [op |-> "translate_src", arg |-> src,
                raised |-> "", result |-> translate_src(src, cortex)]
  /\ UNCHANGED <<surf, cortex>>
  /\ UNCHANGED matchVars

Recort ==
  /\ call = NoCall
  /\ \E input_data \in Arrays(FieldValues, 0..Cardinality(DOMAIN surf.vertices)) :
       LET r == recort(input_data, surf, cortex)
       IN call' = [op |-> "recort", arg |-> input_data,
                   raised |-> r.raised, result |-> r.result]
  /\ UNCHANGED <<surf, cortex>>
  /\ UNCHANGED matchVars

NextMesh == SurfKeepCortex

NextIndex == TranslateSrc \/ Recort

\* ------------------------------------------------------------------------
\* Specifications
\* ------------------------------------------------------------------------
Init == InitMatch /\ IdleIndex

Next == NextMatch

Spec == Init /\ [][Next]_vars

FairSpec == Spec /\ WF_vars(Next)

MeshInit == InitMesh /\ IdleMatch

MeshSpec == MeshInit /\ [][NextMesh]_vars

IndexInit == InitIndex /\ IdleMatch

IndexSpec == IndexInit /\ [][NextIndex]_vars


\* ------------------------------------------------------------------------
\* Properties of find_node_match
\* ------------------------------------------------------------------------
Running == pc # "idle"

\* the values held by the confirmed simple vertices
Held(v) == {v[i] : i \in DOMAIN v} \ {-1}

\* a step that is a pass of the inner loop: the only step that moves col
IsPass == col' # col

\* a vertex that is missing although its candidate is not the neighbour of
\* the last column: it was confirmed earlier and lost its value in the last pass
Displaced(i) ==
  /\ col >= 1
  /\ voronoi_seed_idx[i] = -1
  /\ mapping_single[i] # mapping(i, col - 1)

\* C1: the confirmed assignments are pairwise distinct in every state of the
\* matching loop, and a returned mapping has one entry per simple vertex,
\* none of them -1 and no two of them equal.
C1_Injective ==
  Running =>
    /\ \A i, j \in Simple :
         (i # j /\ voronoi_seed_idx[i] # -1 /\ voronoi_seed_idx[j] # -1)
           => voronoi_seed_idx[i] # voronoi_seed_idx[j]
    /\ pc = "return" =>
         /\ DOMAIN voronoi_seed_idx = 0..(nSimple - 1)
         /\ \A i \in Simple : voronoi_seed_idx[i] # -1
         /\ Cardinality(Range(voronoi_seed_idx)) = nSimple

\* C1 witness: a mapping of three vertices is returned after a collision
C1_Witness ==
  /\ pc = "return"
  /\ nSimple >= 3
  /\ \E i, j \in Simple : i # j /\ ranking[i][0] = ranking[j][0]

\* C2: for 1 <= S <= C and every ranking, find_node_match terminates: it
\* eventually reaches a state with no missing vertex and returns.
C2_Terminates ==
  (Running /\ 1 <= nSimple /\ nSimple <= nComplex) ~> (pc = "return")

\* Once the cursor is past the last real neighbour and the padding column has
\* been tried, a pass changes nothing but col: a vertex still missing then
\* stays missing in every later pass.
NoProgressPastPadding ==
  [][(IsPass /\ col > nComplex)
       => (voronoi_seed_idx' = voronoi_seed_idx /\ mapping_single' = mapping_single)]_vars

\* C3: for S <= C every value of the returned mapping is an index into
\* complex_vertices, 0 <= mapping[i] < C.
C3_ValidIndices ==
  (pc = "return" /\ nSimple <= nComplex)
    => \A i \in Simple : 0 <= voronoi_seed_idx[i] /\ voronoi_seed_idx[i] < nComplex

\* C4: for S > C find_node_match never returns: in every reachable state at
\* least one simple vertex is missing.
C4_NeverReturns ==
  (Running /\ nSimple > nComplex)
    => (pc # "return" /\ missing_idx(voronoi_seed_idx) # {})

\* C9: after every pass each claimed value is held by exactly the lowest-index
\* simple vertex claiming it and every other claimant is -1, where the claim
\* of a vertex is its confirmed value or, if it was missing, its col-th
\* nearest neighbour; a confirmed vertex loses its value exactly when a
\* lower-index vertex claims it; col advances by 1 per pass and is never reset.
C9_FirstClaimantWins ==
  [][/\ col' = col \/ col' = col + 1
     /\ IsPass =>
          LET claim == [i \in Simple |->
                          IF voronoi_seed_idx[i] = -1 THEN mapping(i, col)
                          ELSE voronoi_seed_idx[i]]
          IN /\ mapping_single' = claim
             /\ \A i \in Simple :
                  voronoi_seed_idx'[i] =
                    IF \E j \in Simple : j < i /\ claim[j] = claim[i]
                      THEN -1 ELSE claim[i]
             /\ \A i \in Simple :
                  voronoi_seed_idx[i] # -1 =>
                    /\ voronoi_seed_idx'[i] \in {-1, voronoi_seed_idx[i]}
                    /\ voronoi_seed_idx'[i] = -1
                         <=> \E j \in Simple : j < i /\ claim[j] = voronoi_seed_idx[i]
    ]_vars

\* C9 witness: a vertex confirmed in an earlier pass has lost its value to a
\* lower-index vertex in the last pass
C9_Witness ==
  /\ pc = "while_col"
  /\ \E i \in Simple :
       /\ Displaced(i)
       /\ \E j \in Simple : j < i /\ voronoi_seed_idx[j] = mapping_single[i]

\* C10: from one pass to the next the number of missing vertices never
\* increases and the set of held values never loses an element; simple vertex
\* 0 is confirmed in the first pass with its nearest neighbour and keeps it.
C10_MonotoneProgress ==
  [][/\ Cardinality(missing_idx(voronoi_seed_idx'))
          <= Cardinality(missing_idx(voronoi_seed_idx))
     /\ Held(voronoi_seed_idx) \subseteq Held(voronoi_seed_idx')
     /\ (Running /\ col' >= 1) => voronoi_seed_idx'[0] = ranking[0][0]
    ]_vars

\* C10 witness: among three or more vertices one has just been displaced, the
\* value it held is still held, and vertex 0 holds its nearest neighbour
C10_Witness ==
  /\ pc = "while_col"
  /\ nSimple >= 3
  /\ voronoi_seed_idx[0] = ranking[0][0]
  /\ \E i \in Simple : Displaced(i) /\ mapping_single[i] \in Held(voronoi_seed_idx)
  /\ Cardinality(missing_idx(voronoi_seed_idx)) < nSimple - 1

\* ------------------------------------------------------------------------
\* Properties of the index-space helpers
\* ------------------------------------------------------------------------
nVertices == Cardinality(DOMAIN surf.vertices)

Length(f) == Cardinality(DOMAIN f)

\* the position of a value in a duplicate-free array
PositionIn(f, x) == CHOOSE p \in DOMAIN f : f[p] = x

\* the faces of the full mesh with all three nodes in the cortex, in order
RECURSIVE KeptFaces(_)
KeptFaces(tl) ==
  IF tl = <<>> THEN <<>>
  ELSE (IF \A k \in 1..3 : \E p \in DOMAIN cortex : cortex[p] = Head(tl)[k]
          THEN <<Head(tl)>> ELSE <<>>) \o KeptFaces(Tail(tl))

\* C5: surf_keep_cortex returns the reference restricted mesh: vertices[i] =
\* surf.vertices[cortex[i]]; the triangles are, in order, the faces with all
\* nodes in cortex, each node replaced by its position in cortex; the
\* triangle list is empty when no face qualifies.
C5_RestrictedMesh ==
  call.op = "surf_keep_cortex" =>
    /\ call.raised = ""
    /\ LET vs == call.result[1]
           ts == call.result[2]
           kept == KeptFaces(surf.triangles)
       IN /\ Length(vs) = Length(cortex)
          /\ \A i \in DOMAIN cortex : vs[i] = surf.vertices[cortex[i]]
          /\ Len(ts) = Len(kept)
          /\ \A n \in 1..Len(kept) : \A k \in 1..3 :
               /\ ts[n][k] \in 0..(Length(cortex) - 1)
               /\ cortex[ts[n][k]] = kept[n][k]

\* Whenever at least one face has all its nodes in cortex, surf_keep_cortex
\* returns the reference restricted mesh.
RestrictedMeshWhenFaceKept ==
  (call.op = "surf_keep_cortex" /\ KeptFaces(surf.triangles) # <<>>) => C5_RestrictedMesh

\* C6: with len(input_data) = len(cortex), recort returns an array of the
\* full mesh's size with result[cortex[j]] = input_data[j] for every j and 0
\* at every index not in cortex.
C6_Recort ==
  (call.op = "recort" /\ Length(call.arg) = Length(cortex)) =>
    /\ call.raised = ""
    /\ DOMAIN call.result = 0..(nVertices - 1)
    /\ \A j \in DOMAIN cortex : call.result[cortex[j]] = call.arg[j]
    /\ \A i \in 0..(nVertices - 1) :
         (\A j \in DOMAIN cortex : cortex[j] # i) => call.result[i] = 0

\* C6 witness: a field of two or more non-zero values is expanded over a
\* cortex that is not sorted and leaves a vertex out
C6_Witness ==
  /\ call.op = "recort"
  /\ call.raised = ""
  /\ Length(call.arg) = Length(cortex)
  /\ Length(cortex) >= 2
  /\ Length(cortex) < nVertices
  /\ cortex[0] > cortex[1]
  /\ \A j \in DOMAIN call.arg : call.arg[j] # 0
  /\ call.arg[0] # call.arg[1]

\* C7: recort fails, and returns no field, whenever len(input_data) differs
\* from len(cortex), a single value with a longer cortex included.
C7_LengthMismatchFails ==
  (call.op = "recort" /\ Length(call.arg) # Length(cortex)) =>
    (call.raised # "" /\ call.result = <<>>)

\* C8: translate_src returns exactly the positions p with cortex[p] in src:
\* every src value present in cortex contributes its position, absent values
\* contribute nothing and raise no error, and translate_src(cortex, cortex)
\* yields every position.
C8_TranslateSrc ==
  call.op = "translate_src" =>
    LET present == {k \in DOMAIN call.arg : \E p \in DOMAIN cortex : cortex[p] = call.arg[k]}
    IN /\ call.raised = ""
       /\ Range(call.result) = {PositionIn(cortex, call.arg[k]) : k \in present}
       /\ DuplicateFree(call.result)
       /\ present = {} => call.result = <<>>
       /\ call.arg = cortex => Range(call.result) = 0..(Length(cortex) - 1)

\* C8 witness: a src list naming a cortex vertex at another position than its
\* own, and an index outside the cortex
C8_Witness ==
  /\ call.op = "translate_src"
  /\ Length(call.result) >= 1
  /\ \E k \in DOMAIN call.arg : \A p \in DOMAIN cortex : cortex[p] # call.arg[k]
  /\ \E k \in DOMAIN call.arg : \E p \in DOMAIN cortex :
       cortex[p] = call.arg[k] /\ p # k /\ p # call.arg[k]

====
